---------------------------- MODULE Spec2Model ----------------------------
(***************************************************************************)
(* A model of music_visualizer.py: the background fit, the band-edge       *)
(* calculator, the audio window extractor, the band aggregator, the radial *)
(* renderer and the per-frame pipeline make_frame_rgb.                     *)
(*                                                                         *)
(* Numbers.  The program computes in binary floating point; the model      *)
(* computes in exact integer / rational arithmetic on bounded grids, and   *)
(* says at each definition which unit it uses.                             *)
(***************************************************************************)
EXTENDS Integers, Sequences, FiniteSets

VARIABLES
    phase,      \* which component the run exercises and whether it has acted
    fit_in,     \* load_and_fit_background: [src_w, src_h, canvas, mode]
    fit_out,    \* load_and_fit_background: the fitted image's geometry
    edge_in,    \* compute_band_edges: [sr, low, high, bands]
    edge_out,   \* compute_band_edges: the edges
    band_in,    \* spectrum_to_bands: [freqs, mags, edges]
    band_out,   \* spectrum_to_bands: the band sums and the levels returned
    win_in,     \* get_audio_window: [t, duration, got]
    win_out,    \* get_audio_window: the range asked for, the window returned
    spoke_in,   \* draw_spokes: [levels, width]
    spoke_out,  \* draw_spokes: the lines drawn
    cfg,        \* the run's configuration: [ring, glow, steps]
    audio,      \* the audio track: [duration, kind]
    BAND_EDGES, \* the band edges computed once at start-up
    BG_BASE,    \* the pixels of the shared background image
    frame_out,  \* what the last make_frame_rgb(t) returned, with its draw log
                \*   and whether t had been asked for before
    first,      \* observer: what make_frame_rgb(t) returned the first time
    static0     \* observer: BG_BASE and BAND_EDGES as computed at start-up

fitVars   == <<fit_in, fit_out>>
edgeVars  == <<edge_in, edge_out>>
bandVars  == <<band_in, band_out>>
winVars   == <<win_in, win_out>>
spokeVars == <<spoke_in, spoke_out>>
frameVars == <<cfg, audio, BAND_EDGES, BG_BASE, frame_out, first, static0>>
vars == <<phase, fitVars, edgeVars, bandVars, winVars, spokeVars, frameVars>>

None == [status |-> "none"]

\* The components a specification does not exercise stay as constructed.
FitIdle   == fit_in = None /\ fit_out = None
EdgeIdle  == edge_in = None /\ edge_out = None
BandIdle  == band_in = None /\ band_out = None
WinIdle   == win_in = None /\ win_out = None
SpokeIdle == spoke_in = None /\ spoke_out = None
FrameIdle == /\ cfg = None /\ audio = None /\ BAND_EDGES = None /\ BG_BASE = None
             /\ frame_out = None /\ first = None /\ static0 = None

(***************************************************************************)
(* Configuration (lines 20-41 of the source).                              *)
(***************************************************************************)
W   == 3840
H   == 2160
FPS == 60
SR  == 44100
BASE_RADIUS   == 220
BAR_THICKNESS == 2
BAR_MIN       == 4
BAR_MAX_EXTRA == 70
BASE_RING_W   == 1
GLOW_ALPHA    == 80
GLOW_EXPAND   == 2

(***************************************************************************)
(* Bounds of the model.                                                    *)
(***************************************************************************)
MaxSrc    == 8      \* source images are 1..MaxSrc pixels on each side
MaxCanvas == 4      \* canvases are W x H or 1..MaxCanvas on each side
MaxSr     == 12     \* sample rates are 3..MaxSr Hz
MaxHz     == 6      \* cutoffs are -1..MaxHz Hz
MaxBands  == 3      \* compute_band_edges is asked for 1..MaxBands bands
MaxB      == 3      \* spectrum_to_bands: 1..MaxB bands (and 9, 10: smoothed)
MaxBins   == 3      \* a spectrum has 1..MaxBins frequency bins
MaxStep   == 2      \* the bins are 1..MaxStep apart
MaxTiny   == 2      \* magnitudes 0..MaxTiny units of 1e-8
MaxMag    == 1      \* magnitudes 1.0 .. MaxMag.0
MaxD      == 40     \* the track lasts 1..MaxD ticks of 1/300 s
MaxOver   == 2      \* draw_spokes is given levels from -MaxOver/20 to 1 + MaxOver/20
MaxLevels == 2      \* draw_spokes is given 1..MaxLevels levels
MaxSpokes == 2      \* a run has 1..MaxSpokes bands (SPOKES)
MaxGlow   == 2      \* GLOW_STEPS is 0..MaxGlow
MaxFrames == 3      \* make_frame_rgb is asked for MaxFrames timestamps

(***************************************************************************)
(* Arithmetic helpers.                                                     *)
(***************************************************************************)
Max(a, b) == IF a >= b THEN a ELSE b
Min(a, b) == IF a <= b THEN a ELSE b

\* Python's round() of the non-negative rational num/den: to nearest, ties
\* to the even integer.
RoundHalfEven(num, den) ==
    LET q == num \div den
        r == num % den
    IN  IF 2 * r < den THEN q
        ELSE IF 2 * r > den THEN q + 1
        ELSE IF q % 2 = 0 THEN q ELSE q + 1

(***************************************************************************)
(* load_and_fit_background(path, w, h, mode).                              *)
(*                                                                         *)
(* The image is modelled by its geometry: the size (new_w, new_h) of the   *)
(* aspect-preserving resized source, where it lies in the w x h result,    *)
(* and the width of the black strips on the four sides of the result.      *)
(* src_ratio = src_w / src_h and target_ratio = w / h are compared as      *)
(* rationals (cross-multiplied); w / src_ratio is w * src_h / src_w.       *)
(* Image.resize raises ValueError for a target with a side of 0.           *)
(***************************************************************************)
\* The slip a fit is prone to: the ratio comparison the wrong way round.
FitContainSwapped(src_w, src_h, w, h) ==
    LET wider == src_w * h < w * src_h
        new_w == IF wider THEN w ELSE RoundHalfEven(h * src_w, src_h)
        new_h == IF wider THEN RoundHalfEven(w * src_h, src_w) ELSE h
        x     == (w - new_w) \div 2
        y     == (h - new_h) \div 2
    IN  IF new_w < 1 \/ new_h < 1
        THEN [status |-> "error"]
        ELSE [status |-> "ok", mode |-> "contain",
              new_w |-> new_w, new_h |-> new_h, x |-> x, y |-> y,
              out_w |-> w, out_h |-> h,
              padL |-> x, padR |-> w - new_w - x,
              padT |-> y, padB |-> h - new_h - y]

FitContain(src_w, src_h, w, h) ==
    LET wider == src_w * h > w * src_h               \* src_ratio > target_ratio
        new_w == IF wider THEN w ELSE RoundHalfEven(h * src_w, src_h)
        new_h == IF wider THEN RoundHalfEven(w * src_h, src_w) ELSE h
        x     == (w - new_w) \div 2
        y     == (h - new_h) \div 2
    IN  IF new_w < 1 \/ new_h < 1
        THEN [status |-> "error"]
        ELSE [status |-> "ok", mode |-> "contain",
              new_w |-> new_w, new_h |-> new_h, x |-> x, y |-> y,
              out_w |-> w, out_h |-> h,             \* Image.new("RGB", (w, h))
              padL |-> x, padR |-> w - new_w - x,   \* paste at (x, y)
              padT |-> y, padB |-> h - new_h - y]

FitCover(src_w, src_h, w, h) ==
    LET narrower == src_w * h < w * src_h            \* src_ratio < target_ratio
        new_h == IF narrower THEN h ELSE RoundHalfEven(w * src_h, src_w)
        new_w == IF narrower THEN RoundHalfEven(h * src_w, src_h) ELSE w
        x     == (new_w - w) \div 2                  \* floor division, as //
        y     == (new_h - h) \div 2
    IN  IF new_w < 1 \/ new_h < 1
        THEN [status |-> "error"]
        ELSE [status |-> "ok", mode |-> "cover",
              new_w |-> new_w, new_h |-> new_h, x |-> x, y |-> y,
              \* crop((x, y, x + w, y + h)): the result has the box's size, and
              \* the part of the box outside the resized image is black
              out_w |-> (x + w) - x, out_h |-> (y + h) - y,
              padL |-> Max(0, 0 - x), padR |-> Max(0, (x + w) - new_w),
              padT |-> Max(0, 0 - y), padB |-> Max(0, (y + h) - new_h)]

load_and_fit_background(src_w, src_h, w, h, mode) ==
    IF mode = "contain" THEN FitContain(src_w, src_h, w, h)
                        ELSE FitCover(src_w, src_h, w, h)

Canvases == {<<W, H>>, <<16, 9>>} \cup ((1..MaxCanvas) \X (1..MaxCanvas))

InitFit ==
    /\ phase = "fit"
    /\ fit_in \in [src_w : 1..MaxSrc, src_h : 1..MaxSrc, canvas : Canvases,
                   mode : {"cover", "contain"}]
    /\ fit_out = None
    /\ EdgeIdle /\ BandIdle /\ WinIdle /\ SpokeIdle /\ FrameIdle

Fit ==
    /\ phase = "fit"
    /\ phase' = "fitted"
    /\ fit_out' = load_and_fit_background(fit_in.src_w, fit_in.src_h,
                                          fit_in.canvas[1], fit_in.canvas[2],
                                          fit_in.mode)
    /\ UNCHANGED <<fit_in, edgeVars, bandVars, winVars, spokeVars, frameVars>>

NextFit == Fit

SpecFit == InitFit /\ [][NextFit]_vars

(***************************************************************************)
(* Claims about load_and_fit_background.                                   *)
(***************************************************************************)
Fitted(mode) == phase = "fitted" /\ fit_in.mode = mode
Square       == fit_in.src_w = fit_in.src_h
Canvas16x9   == fit_in.canvas[1] * 9 = fit_in.canvas[2] * 16
Abs(a)       == IF a < 0 THEN 0 - a ELSE a

\* C1: in "cover" mode the result returned is exactly (w, h) and holds no padding:
\* the resized source is at least w wide and h tall and the centred crop
\* rectangle lies inside it.
C1_CoverFillsCanvas ==
    (Fitted("cover") /\ fit_out.status = "ok") =>
        /\ fit_out.out_w = fit_in.canvas[1] /\ fit_out.out_h = fit_in.canvas[2]
        /\ fit_out.new_w >= fit_in.canvas[1] /\ fit_out.new_h >= fit_in.canvas[2]
        /\ fit_out.x >= 0 /\ fit_out.x + fit_in.canvas[1] <= fit_out.new_w
        /\ fit_out.y >= 0 /\ fit_out.y + fit_in.canvas[2] <= fit_out.new_h
        /\ fit_out.padL = 0 /\ fit_out.padR = 0
        /\ fit_out.padT = 0 /\ fit_out.padB = 0

\* What "contain" mode gives for every source and canvas it returns for: the
\* result is exactly (w, h); the resized source keeps the aspect ratio to the
\* nearest pixel, spans one axis of the canvas fully and fits in the other,
\* centred to within one pixel, so black padding is on one axis at most.
ContainGeometry ==
    LET w == fit_in.canvas[1]
        h == fit_in.canvas[2]
        o == fit_out
    IN  /\ o.out_w = w /\ o.out_h = h
        /\ 1 <= o.new_w /\ o.new_w <= w /\ 1 <= o.new_h /\ o.new_h <= h
        /\ \/ o.new_w = w /\ 2 * Abs(o.new_h * fit_in.src_w - w * fit_in.src_h) <= fit_in.src_w
           \/ o.new_h = h /\ 2 * Abs(o.new_w * fit_in.src_h - h * fit_in.src_w) <= fit_in.src_h
        /\ o.padL >= 0 /\ o.padL + o.new_w + o.padR = w /\ o.padR - o.padL \in {0, 1}
        /\ o.padT >= 0 /\ o.padT + o.new_h + o.padB = h /\ o.padB - o.padT \in {0, 1}
        /\ (o.padL = 0 /\ o.padR = 0) \/ (o.padT = 0 /\ o.padB = 0)

HalfHz(hz) == 2 * hz

compute_band_edges(sr, low, high, bands) ==
    LET nyq == sr                                           \* sr / 2.0
        hi0 == Min(HalfHz(high), nyq - HalfHz(1))           \* min(high, nyq - 1.0)
        lo  == Max(HalfHz(1), Min(HalfHz(low), hi0 - HalfHz(1)))
        hi  == IF hi0 <= lo THEN lo + HalfHz(1) ELSE hi0
    IN  [bands |-> bands, nyq |-> nyq, lo |-> lo, hi |-> hi,
         pow |-> [i \in 0..bands |-> lo^(bands - i) * hi^i]]

InitEdges ==
    /\ phase = "edges"
    /\ edge_in \in [sr : 3..MaxSr, low : -1..MaxHz, high : -1..MaxHz,
                    bands : 1..MaxBands]
    /\ edge_out = None
    /\ FitIdle /\ BandIdle /\ WinIdle /\ SpokeIdle /\ FrameIdle

ComputeEdges ==
    /\ phase = "edges"
    /\ phase' = "edged"
    /\ edge_out' = compute_band_edges(edge_in.sr, edge_in.low, edge_in.high,
                                      edge_in.bands)
    /\ UNCHANGED <<fitVars, edge_in, bandVars, winVars, spokeVars, frameVars>>

NextEdges == ComputeEdges

SpecEdges == InitEdges /\ [][NextEdges]_vars

(***************************************************************************)
(* Claims about compute_band_edges.                                        *)
(***************************************************************************)
EdgesLength    == Cardinality(DOMAIN edge_out.pow) = edge_in.bands + 1
EdgesIncrease  == \A i \in 0..(edge_out.bands - 1) :
                      edge_out.pow[i] < edge_out.pow[i + 1]
EdgesFromOneHz == edge_out.lo >= HalfHz(1)
                  /\ edge_out.pow[0] >= HalfHz(1)^edge_out.bands
EdgesBelowNyq  == edge_out.hi < edge_out.nyq
                  /\ edge_out.pow[edge_out.bands] < edge_out.nyq^edge_out.bands

\* C3: for every B >= 1, sr > 2 and low/high cutoff the result has B+1
\* edges, strictly increasing, with edges[0] >= 1 Hz and edges[B] < sr/2.
C3_EdgesValid ==
    phase = "edged" =>
        EdgesLength /\ EdgesIncrease /\ EdgesFromOneHz /\ EdgesBelowNyq

\* What does hold of the edges for every input: the length, the order and
\* the lower end; and the upper end too once sr > 4.
EdgesValidAbove4Hz ==
    phase = "edged" =>
        /\ EdgesLength /\ EdgesIncrease /\ EdgesFromOneHz
        /\ edge_in.sr > 4 => EdgesBelowNyq

(***************************************************************************)
(* spectrum_to_bands(freqs, mags, edges).                                  *)
(*                                                                         *)
(* freqs and edges are integers (Hz).  Magnitudes, band sums and their     *)
(* logarithms are fixed-point numbers in units of 1e-8, the epsilon of     *)
(* line 155: EPS is 1 unit and 1.0 is One units.  A level returned is the  *)
(* rational <<num, den>>: out /= mx is kept as the exact quotient.         *)
(* Sequences are 1-based: edges[k + 1] here is edges[k] in the source.     *)
(***************************************************************************)
EPS == 1
One == 10^8

SMOOTH_K == 9

\* round(1e8 * ln(1 + k)) for k = 0, 1, 2, ...
LnTable ==
    <<0, 69314718, 109861229, 138629436, 160943791, 179175947, 194591015,
      207944154, 219722458, 230258509, 239789527, 248490665, 256494936,
      263905733, 270805020, 277258872, 283321334, 289037176, 294443898,
      299573227, 304452244, 309104245, 313549422, 317805383, 321887582>>

\* np.log1p of x = k + t, k whole and t a few 1e-8: ln(1 + k) + t / (1 + k),
\* to the unit.
log1p(x) ==
    LET k == x \div One
        t == x % One
    IN  LnTable[k + 1] + t \div (k + 1)

\* np.searchsorted(a, v, side="right"): the binary search for the first
\* index whose element is greater than v (0-based, Len(a) if there is none).
RECURSIVE searchsorted_right(_, _, _, _)
searchsorted_right(a, v, lo, hi) ==
    IF lo >= hi THEN lo
    ELSE LET mid == lo + (hi - lo) \div 2
         IN  IF a[mid + 1] <= v
             THEN searchsorted_right(a, v, mid + 1, hi)
             ELSE searchsorted_right(a, v, lo, mid)

\* side="left": the first index whose element is not less than v.
RECURSIVE searchsorted_left(_, _, _, _)
searchsorted_left(a, v, lo, hi) ==
    IF lo >= hi THEN lo
    ELSE LET mid == lo + (hi - lo) \div 2
         IN  IF a[mid + 1] < v
             THEN searchsorted_left(a, v, mid + 1, hi)
             ELSE searchsorted_left(a, v, lo, mid)

\* The slip in the band index: the search from the other side.
BandIndexLeft(edges, f) ==
    LET bands == Len(edges) - 1
        raw   == searchsorted_left(edges, f, 0, Len(edges)) - 1
    IN  Max(0, Min(bands - 1, raw))

\* Lines 143-144: searchsorted(edges, f, side="right") - 1, clipped.
BandIndex(edges, f) ==
    LET bands == Len(edges) - 1
        raw   == searchsorted_right(edges, f, 0, Len(edges)) - 1
    IN  Max(0, Min(bands - 1, raw))                  \* np.clip(idx, 0, bands - 1)

\* Line 139 and 142: the positions of the bins the mask keeps, in order.
RECURSIVE KeptBins(_, _, _)
KeptBins(freqs, edges, k) ==
    IF k > Len(freqs) THEN <<>>
    ELSE LET rest == KeptBins(freqs, edges, k + 1)
         IN  IF freqs[k] >= edges[1] /\ freqs[k] <= edges[Len(edges)]
             THEN <<k>> \o rest ELSE rest

\* np.add.at(out, idx, m): out[idx[p]] += m[p] for p = 0, 1, ...
RECURSIVE add_at(_, _, _, _)
add_at(out, idx, m, p) ==
    IF p > Len(idx) THEN out
    ELSE add_at([out EXCEPT ![idx[p] + 1] = @ + m[p]], idx, m, p + 1)

SeqMax(s) == CHOOSE v \in {s[i] : i \in DOMAIN s} :
                 \A i \in DOMAIN s : s[i] <= v
SeqMin(s) == CHOOSE v \in {s[i] : i \in DOMAIN s} :
                 \A i \in DOMAIN s : v <= s[i]

RECURSIVE SumFromTo(_, _, _)
SumFromTo(f, a, b) == IF a > b THEN 0 ELSE f[a] + SumFromTo(f, a + 1, b)

\* Lines 148-153: the centred moving average of width k over the
\* edge-padded sequence; np.convolve sums the products padded[j] * (1/k).
Smooth(out) ==
    LET n   == Len(out)
        k   == SMOOTH_K
        pad == k \div 2
        padded == [j \in 1..(n + 2 * pad) |->
                      out[Max(1, Min(n, j - pad))]]       \* mode="edge"
        terms  == [j \in 1..(n + 2 * pad) |-> padded[j] \div k]
    IN  [i \in 1..n |-> SumFromTo(terms, i, i + 2 * pad)]

\* The slip in the normalisation: the smallest value for the largest.
NormalizeByMin(out) ==
    LET mn == SeqMin(out)
    IN  IF mn > EPS THEN [i \in DOMAIN out |-> <<out[i], mn>>]
                    ELSE [i \in DOMAIN out |-> <<out[i], One>>]

\* Lines 154-156: mx = out.max(); if mx > 1e-8: out /= mx.
Normalize(out) ==
    LET mx == SeqMax(out)
    IN  IF mx > EPS THEN [i \in DOMAIN out |-> <<out[i], mx>>]
                    ELSE [i \in DOMAIN out |-> <<out[i], One>>]

spectrum_to_bands(freqs, mags, edges) ==
    LET bands == Len(edges) - 1
        zeros == [i \in 1..bands |-> 0]
        kept  == KeptBins(freqs, edges, 1)
        f     == [p \in DOMAIN kept |-> freqs[kept[p]]]
        m     == [p \in DOMAIN kept |-> mags[kept[p]]]
        idx   == [p \in DOMAIN kept |-> BandIndex(edges, f[p])]
        sums  == add_at(zeros, idx, m, 1)
        logs  == [i \in 1..bands |-> log1p(sums[i])]
        sm    == IF bands >= SMOOTH_K THEN Smooth(logs) ELSE logs
    IN  IF kept = <<>>
        THEN [path |-> "empty", kept |-> kept, idx |-> <<>>, sums |-> zeros,
              levels |-> [i \in 1..bands |-> <<0, One>>]]
        ELSE [path |-> IF bands >= SMOOTH_K THEN "smoothed" ELSE "plain",
              kept |-> kept, idx |-> idx, sums |-> sums,
              levels |-> Normalize(sm)]

\* The inputs: rfftfreq's bins 0, d, 2d, ...; magnitudes that are whole
\* (k.0) or tiny (a few 1e-8); strictly increasing edges.
BinFreqs == {[k \in 1..n |-> (k - 1) * d] : n \in 1..MaxBins, d \in 1..MaxStep}
MagValues == (0..MaxTiny) \cup {k * One : k \in 1..MaxMag}
MaxEdge == MaxB + 2
RECURSIVE IncreasingSeqs(_, _)
IncreasingSeqs(n, top) ==
    IF n = 0 THEN {<<>>}
    ELSE UNION {{Append(s, v) : v \in (IF s = <<>> THEN 1 ELSE s[Len(s)] + 1)..top}
                : s \in IncreasingSeqs(n - 1, top)}
EdgeSeqs ==
    UNION {IncreasingSeqs(b + 1, MaxEdge) : b \in 1..MaxB}
    \cup {[k \in 1..(b + 1) |-> k] : b \in {SMOOTH_K, SMOOTH_K + 1}}

InitBands ==
    /\ phase = "bands"
    /\ \E fr \in BinFreqs, e \in EdgeSeqs :
         \E mg \in [DOMAIN fr -> MagValues] :
            band_in = [freqs |-> fr, mags |-> mg, edges |-> e]
    /\ band_out = None
    /\ FitIdle /\ EdgeIdle /\ WinIdle /\ SpokeIdle /\ FrameIdle

SpectrumToBands ==
    /\ phase = "bands"
    /\ phase' = "banded"
    /\ band_out' = spectrum_to_bands(band_in.freqs, band_in.mags, band_in.edges)
    /\ UNCHANGED <<fitVars, edgeVars, band_in, winVars, spokeVars, frameVars>>

NextBands == SpectrumToBands

SpecBands == InitBands /\ [][NextBands]_vars

(***************************************************************************)
(* Claims about spectrum_to_bands.  Bands are numbered from 0, as in the   *)
(* source; Edge(k) is edges[k] of the source.                              *)
(***************************************************************************)
Banded    == phase = "banded"
NumBands  == Len(band_in.edges) - 1
Edge(k)   == band_in.edges[k + 1]
KeptFreq(p) == band_in.freqs[band_out.kept[p]]
KeptMag(p)  == band_in.mags[band_out.kept[p]]

RECURSIVE SumMags(_)
SumMags(ps) ==
    IF ps = {} THEN 0
    ELSE LET p == CHOOSE q \in ps : TRUE
         IN  KeptMag(p) + SumMags(ps \ {p})

KeptExactlyInRange ==
    /\ {band_out.kept[p] : p \in DOMAIN band_out.kept}
          = {k \in DOMAIN band_in.freqs :
                Edge(0) <= band_in.freqs[k] /\ band_in.freqs[k] <= Edge(NumBands)}
    /\ DOMAIN band_out.idx = DOMAIN band_out.kept

\* The band the spec's sentence names: edges[i] < f <= edges[i+1], clamped
\* (so a bin at edges[0] goes to band 0).
UpperClosedBand(f) ==
    IF f = Edge(0) THEN 0
    ELSE CHOOSE i \in 0..(NumBands - 1) : Edge(i) < f /\ f <= Edge(i + 1)

\* The band of the half-open intervals: edges[i] <= f < edges[i+1], clamped
\* (so a bin at edges[B] goes to band B-1).
LowerClosedBand(f) ==
    IF f = Edge(NumBands) THEN NumBands - 1
    ELSE CHOOSE i \in 0..(NumBands - 1) : Edge(i) <= f /\ f < Edge(i + 1)

\* C4 as stated: every kept bin is added to the band i with
\* edges[i] < f <= edges[i+1] (clamped) and to no other, so a bin at an
\* interior edge edges[j] goes to band j-1.
C4_BinInUpperClosedBand ==
    Banded =>
        /\ KeptExactlyInRange
        /\ \A p \in DOMAIN band_out.kept :
              band_out.idx[p] = UpperClosedBand(KeptFreq(p))
        /\ \A i \in 0..(NumBands - 1) :
              band_out.sums[i + 1] =
                 SumMags({p \in DOMAIN band_out.kept : UpperClosedBand(KeptFreq(p)) = i})

\* C4 as amended: every kept bin is added to the band i with
\* edges[i] <= f < edges[i+1] (clamped) and to no other, so a bin at an
\* interior edge edges[j] goes to band j, and one at edges[B] to band B-1.
C4_BinInLowerClosedBand ==
    Banded =>
        /\ KeptExactlyInRange
        /\ \A p \in DOMAIN band_out.kept :
              band_out.idx[p] = LowerClosedBand(KeptFreq(p))
        /\ \A i \in 0..(NumBands - 1) :
              band_out.sums[i + 1] =
                 SumMags({p \in DOMAIN band_out.kept : LowerClosedBand(KeptFreq(p)) = i})

\* A bin with a magnitude lies on an interior edge edges[j] and was added to
\* band j.
C4_Witness ==
    /\ Banded
    /\ \E p \in DOMAIN band_out.kept : \E j \in 1..(NumBands - 1) :
          /\ KeptFreq(p) = Edge(j) /\ KeptMag(p) > 0
          /\ band_out.idx[p] = j /\ band_out.sums[j + 1] >= KeptMag(p)

\* C5: for non-negative magnitudes the B levels returned are each in
\* [0, 1] on every path, and all exactly 0 when every magnitude is 0.
C5_LevelsInUnitInterval ==
    Banded =>
        /\ Len(band_out.levels) = NumBands
        /\ \A i \in 1..NumBands :
              LET num == band_out.levels[i][1]
                  den == band_out.levels[i][2]
              IN  den > 0 /\ 0 <= num /\ num <= den
        /\ (\A k \in DOMAIN band_in.mags : band_in.mags[k] = 0)
              => \A i \in 1..NumBands : band_out.levels[i][1] = 0

\* The smoothed and normalised path, with a peak band at 1 and another band
\* strictly between 0 and 1.
C5_Witness ==
    /\ Banded /\ band_out.path = "smoothed"
    /\ \E i, j \in 1..NumBands :
          /\ band_out.levels[i][1] = band_out.levels[i][2]
          /\ 0 < band_out.levels[j][1]
          /\ band_out.levels[j][1] < band_out.levels[j][2]

\* The other paths of C5: no bin in range; a peak that is not above the
\* epsilon although a magnitude is not 0.
C5_EmptyPathReached == Banded /\ band_out.path = "empty"
C5_BelowEpsilonReached ==
    /\ Banded /\ band_out.path = "plain"
    /\ \E i \in 1..NumBands : band_out.levels[i] = <<EPS, One>>

(***************************************************************************)
(* get_audio_window(t, win_sec, sr).                                       *)
(*                                                                         *)
(* Time is in ticks of 1/300 s, the coarsest unit in which win_sec / 2     *)
(* (15 ticks), 1.0 / FPS (5 ticks) and 0.01 (3 ticks) are whole.  The      *)
(* audio source (subclip + to_soundarray) is the environment: asked for    *)
(* [start, end) it returns `got` samples, at most the (end - start) * sr   *)
(* of the range.  The window returned is modelled by its length and by     *)
(* whether it is the zero-filled fallback.                                 *)
(***************************************************************************)
TicksPerSec == 5 * FPS
WINDOW_SEC  == TicksPerSec \div 10                   \* 0.10 s
FrameTicks  == TicksPerSec \div FPS                  \* 1.0 / FPS
MinExtend   == TicksPerSec \div 100                  \* 0.01 s

AudioRange(t, duration, win_sec) ==
    LET start == Max(0, t - win_sec \div 2)
        end0  == Min(duration, t + win_sec \div 2)
        end   == IF end0 <= start
                 THEN Min(duration, start + Max(FrameTicks, MinExtend))
                 ELSE end0
    IN  [start |-> start, end |-> end]

\* The number of samples of the range [start, end) at rate sr.
RangeSamples(r, sr) == Max(0, ((r.end - r.start) * sr) \div TicksPerSec)

\* The slip: the empty array handed on as it is.
get_audio_window_nofill(t, duration, got, win_sec, sr) ==
    LET r == AudioRange(t, duration, win_sec)
        n == Min(got, RangeSamples(r, sr))
    IN  [start |-> r.start, end |-> r.end, n |-> n,
         len |-> n, zeros |-> FALSE]

get_audio_window(t, duration, got, win_sec, sr) ==
    LET r == AudioRange(t, duration, win_sec)
        n == Min(got, RangeSamples(r, sr))           \* len(arr)
    IN  IF n = 0
        THEN [start |-> r.start, end |-> r.end, n |-> n,
              len |-> (sr * win_sec) \div TicksPerSec,  \* zeros(int(sr * win_sec))
              zeros |-> TRUE]
        ELSE [start |-> r.start, end |-> r.end, n |-> n,
              len |-> n, zeros |-> FALSE]             \* arr * np.hanning(n)

\* What the source may return for a range of nominal samples.
SourceLengths == {0, 1, ((SR * WINDOW_SEC) \div TicksPerSec) \div 2,
                  (SR * WINDOW_SEC) \div TicksPerSec}

InitWindow ==
    /\ phase = "window"
    /\ \E d \in 1..MaxD :
         win_in \in [t : 0..(d + WINDOW_SEC), duration : {d}, got : SourceLengths]
    /\ win_out = None
    /\ FitIdle /\ EdgeIdle /\ BandIdle /\ SpokeIdle /\ FrameIdle

GetAudioWindow ==
    /\ phase = "window"
    /\ phase' = "windowed"
    /\ win_out' = get_audio_window(win_in.t, win_in.duration, win_in.got,
                                   WINDOW_SEC, SR)
    /\ UNCHANGED <<fitVars, edgeVars, bandVars, win_in, spokeVars, frameVars>>

NextWindow == GetAudioWindow

SpecWindow == InitWindow /\ [][NextWindow]_vars

(***************************************************************************)
(* Claims about get_audio_window.                                          *)
(***************************************************************************)
\* C6: for every t in [0, D) the range satisfies 0 <= start < end <= D and
\* the window returned has at least 1 sample, the zero-filled fallback for
\* an empty answer of the source included.
C6_WindowNonEmpty ==
    (phase = "windowed" /\ 0 <= win_in.t /\ win_in.t < win_in.duration) =>
        /\ 0 <= win_out.start
        /\ win_out.start < win_out.end
        /\ win_out.end <= win_in.duration
        /\ win_out.len >= 1

\* The source answers a range inside the track with nothing, and the
\* window is the fallback of int(sr * win_sec) = 4410 zeros.
C6_Witness ==
    /\ phase = "windowed" /\ win_in.t < win_in.duration
    /\ win_in.got = 0 /\ win_out.zeros
    /\ win_out.len = 4410
    /\ win_out.end = win_in.duration /\ win_out.start > 0

\* Past the end of the track the extension of line 106 cannot help: the
\* range stays empty.
C6_BeyondTrackReached ==
    /\ phase = "windowed" /\ win_in.t >= win_in.duration
    /\ win_out.end <= win_out.start

(***************************************************************************)
(* draw_spokes(draw, levels, color, width).                                *)
(*                                                                         *)
(* A level is the rational <<num, den>>, den > 0.  x ** 0.9 is taken from  *)
(* a table on the grid k/20, k = 0..20, in thousandths; a clipped level    *)
(* between two grid points is rounded down to the grid.  Lengths are in    *)
(* thousandths of a pixel.  A line drawn is recorded as                    *)
(* [op, spoke, r0, h, width, rgb, alpha]: from radius r0 to r0 + h at the  *)
(* angle theta = 2 pi spoke / len(levels), in the given colour.            *)
(***************************************************************************)
Milli == 10^3

\* round(1000 * (k/20) ** 0.9) for k = 0..20
Pow09Table ==
    <<0, 67, 126, 181, 235, 287, 338, 389, 438, 487, 536, 584, 631, 679,
      725, 772, 818, 864, 910, 955, 1000>>

LevelGrid == Len(Pow09Table) - 1

\* <<floor(num * q / den), (num * q) % den>> for 0 <= num < den, by q
\* additions (the product itself may not fit the machine integer).
RECURSIVE ScaleDiv(_, _, _)
ScaleDiv(num, den, q) ==
    IF q = 0 THEN <<0, 0>>
    ELSE LET prev == ScaleDiv(num, den, q - 1)
         IN  <<prev[1] + (prev[2] + num) \div den, (prev[2] + num) % den>>

\* np.clip(level, 0, 1) ** 0.9, in thousandths
ShapedLevel(level) ==
    LET num == level[1]
        den == level[2]
        k   == IF num <= 0 THEN 0                      \* clipped to 0
               ELSE IF num >= den THEN LevelGrid       \* clipped to 1
               ELSE ScaleDiv(num, den, LevelGrid)[1]
    IN  Pow09Table[k + 1]

\* The slip: the level used as it comes, neither clipped nor shaped.
BarHeightRaw(level) ==
    Milli * BAR_MIN + BAR_MAX_EXTRA * ((Milli * level[1]) \div level[2])

\* Line 164: heights = BAR_MIN + BAR_MAX_EXTRA * (np.clip(levels, 0, 1) ** 0.9)
BarHeight(level) == Milli * BAR_MIN + BAR_MAX_EXTRA * ShapedLevel(level)

\* Line 161: w = int(max(1, width)); every call of the program gives a width.
LineWidth(width) == Max(1, width)

draw_spokes(levels, alpha, width) ==
    [p \in 1..Len(levels) |->
        [op |-> "line", spoke |-> p - 1, r0 |-> Milli * BASE_RADIUS,
         h |-> BarHeight(levels[p]), width |-> LineWidth(width),
         rgb |-> <<255, 255, 255>>, alpha |-> alpha]]

GridLevels == {<<k, LevelGrid>> : k \in (0 - MaxOver)..(LevelGrid + MaxOver)}

InitSpokes ==
    /\ phase = "spokes"
    /\ \E n \in 1..MaxLevels :
         spoke_in \in [levels : [1..n -> GridLevels], width : {0, BAR_THICKNESS}]
    /\ spoke_out = None
    /\ FitIdle /\ EdgeIdle /\ BandIdle /\ WinIdle /\ FrameIdle

DrawSpokes ==
    /\ phase = "spokes"
    /\ phase' = "drawn"
    /\ spoke_out' = draw_spokes(spoke_in.levels, 255, spoke_in.width)
    /\ UNCHANGED <<fitVars, edgeVars, bandVars, winVars, spoke_in, frameVars>>

NextSpokes == DrawSpokes

SpecSpokes == InitSpokes /\ [][NextSpokes]_vars

(***************************************************************************)
(* Claims about draw_spokes.                                               *)
(***************************************************************************)
LevelLeq(a, b) == a[1] * b[2] <= b[1] * a[2]

\* C9: every band gets a bar that starts at BASE_RADIUS and whose length is
\* BAR_MIN at level 0 (and below), BAR_MIN + BAR_MAX_EXTRA at level 1 (and
\* above), non-decreasing in the level, and never outside
\* [BAR_MIN, BAR_MIN + BAR_MAX_EXTRA].
C9_BarLength ==
    phase = "drawn" =>
        /\ Len(spoke_out) = Len(spoke_in.levels)
        /\ \A p \in DOMAIN spoke_out :
              LET lv == spoke_in.levels[p]
                  h  == spoke_out[p].h
              IN  /\ spoke_out[p].spoke = p - 1
                  /\ spoke_out[p].r0 = Milli * BASE_RADIUS
                  /\ Milli * BAR_MIN <= h
                  /\ h <= Milli * (BAR_MIN + BAR_MAX_EXTRA)
                  /\ lv[1] <= 0 => h = Milli * BAR_MIN
                  /\ lv[1] >= lv[2] => h = Milli * (BAR_MIN + BAR_MAX_EXTRA)
        /\ \A p, q \in DOMAIN spoke_out :
              LevelLeq(spoke_in.levels[p], spoke_in.levels[q])
                 => spoke_out[p].h <= spoke_out[q].h

\* Two bars drawn together, one for a level above 1 and one for a level
\* strictly between 0 and 1, the second strictly between the two ends.
C9_Witness ==
    /\ phase = "drawn" /\ Len(spoke_out) = 2
    /\ spoke_in.levels[1][1] > spoke_in.levels[1][2]
    /\ spoke_out[1].h = Milli * (BAR_MIN + BAR_MAX_EXTRA)
    /\ 0 < spoke_in.levels[2][1] /\ spoke_in.levels[2][1] < spoke_in.levels[2][2]
    /\ Milli * BAR_MIN < spoke_out[2].h
    /\ spoke_out[2].h < Milli * (BAR_MIN + BAR_MAX_EXTRA)

(***************************************************************************)
(* fft_magnitude(sig, sr) and the audio track.                             *)
(*                                                                         *)
(* The transform is not computed.  A track is one of a few kinds, and the  *)
(* magnitude spectrum of the Hann-tapered samples of a range is a fixed    *)
(* function of the kind and the range; the window of zeros has the         *)
(* spectrum of silence.  Bins are at 0, 1, 2, 3, 4 Hz.                     *)
(***************************************************************************)
TrackKinds == {"silent", "tone", "sweep", "empty", "single"}
BinHz      == <<0, 1, 2, 3, 4>>
Silence    == [k \in DOMAIN BinHz |-> 0]

\* How many samples the source has for a range of the track.
SourceSamples(kind) ==
    CASE kind = "empty"  -> 0
      [] kind = "single" -> 1
      [] OTHER           -> (SR * WINDOW_SEC) \div TicksPerSec

TrackSpectrum(kind, start) ==
    CASE kind = "tone"  -> <<One, 2 * One, One, 0, 0>>
      [] kind = "sweep" -> [k \in DOMAIN BinHz |->
                              IF k = 2 + ((start \div (WINDOW_SEC \div 2)) % 3)
                              THEN 2 * One ELSE 2 * EPS]
      [] OTHER          -> Silence

fft_magnitude(sig, kind) ==
    IF sig.len <= 1
    THEN [freqs |-> <<0>>, mags |-> <<0>>]
    ELSE [freqs |-> BinHz,
          mags  |-> IF sig.zeros THEN Silence ELSE TrackSpectrum(kind, sig.start)]

(***************************************************************************)
(* The frame image.                                                        *)
(*                                                                         *)
(* Pixels are kept where the program draws: for each spoke, the cells      *)
(* <<spoke, r, o>> at r whole pixels outward from BASE_RADIUS along the    *)
(* spoke and o whole pixels to its side; of the radial positions the model *)
(* keeps a sample (0, BAR_MIN, and ten even steps up to the longest bar).  *)
(* A pixel is one channel 0..255 (white is drawn on all three alike).  A   *)
(* line of width w covers the offsets o with 2 o + 1 <= w, up to its       *)
(* length; the base circle covers r = 0.  Drawing in "RGBA" mode blends    *)
(* the colour over the pixel by its alpha.                                 *)
(***************************************************************************)
MaxWidth == BAR_THICKNESS + MaxGlow * GLOW_EXPAND
RadialSamples == {0} \cup {BAR_MIN + k * (BAR_MAX_EXTRA \div 10) : k \in 0..10}
Cells(spokes) ==
    (0..(spokes - 1)) \X RadialSamples \X (0..((MaxWidth - 1) \div 2))

Blend(v, alpha) == (255 * alpha + v * (255 - alpha) + 127) \div 255

Covers(op, c) ==
    IF op.op = "ellipse"
    THEN c[2] = 0
    ELSE /\ c[1] = op.spoke
         /\ Milli * c[2] <= op.h
         /\ 2 * c[3] + 1 <= op.width

RECURSIVE Paint(_, _, _)
Paint(img, ops, k) ==
    IF k > Len(ops) THEN img
    ELSE Paint([c \in DOMAIN img |->
                   IF Covers(ops[k], c) THEN Blend(img[c], ops[k].alpha)
                                        ELSE img[c]],
               ops, k + 1)

(***************************************************************************)
(* make_frame_rgb(t).                                                      *)
(***************************************************************************)
\* The slip in the falloff: alpha growing with the pass index.
GlowAlphaRising(i, steps) ==
    Max(0, (GLOW_ALPHA * i) \div Max(1, steps))

\* Line 196: max(0, int(GLOW_ALPHA * (1.0 - (i - 1) / max(1, GLOW_STEPS)))),
\* in exact arithmetic.  (In binary floating point 1.0 - (i - 1) / n can fall
\* just short of the exact value and int() then gives one less, as for
\* i = n = 5: 15, not 16.  Each operation is monotonic in i.)
GlowAlpha(i, steps) ==
    LET n == Max(1, steps)
    IN  Max(0, (GLOW_ALPHA * (n - (i - 1))) \div n)

RECURSIVE GlowPasses(_, _, _)
GlowPasses(levels, i, steps) ==
    IF i > steps THEN <<>>
    ELSE draw_spokes(levels, GlowAlpha(i, steps), BAR_THICKNESS + i * GLOW_EXPAND)
         \o GlowPasses(levels, i + 1, steps)

BaseCircle(ring) ==
    IF ring /\ BASE_RING_W > 0
    THEN <<[op |-> "ellipse", r0 |-> Milli * BASE_RADIUS, width |-> BASE_RING_W,
            rgb |-> <<255, 255, 255>>, alpha |-> 160]>>
    ELSE <<>>

\* The slip in the order: the sharp pass drawn before the glow.
DrawOpsSharpFirst(levels, c) ==
    BaseCircle(c.ring)
    \o draw_spokes(levels, 255, BAR_THICKNESS)
    \o (IF c.glow /\ c.steps > 0 THEN GlowPasses(levels, 1, c.steps) ELSE <<>>)

\* Lines 184-200: the draws of one frame, in order.
DrawOps(levels, c) ==
    BaseCircle(c.ring)
    \o (IF c.glow /\ c.steps > 0 THEN GlowPasses(levels, 1, c.steps) ELSE <<>>)
    \o draw_spokes(levels, 255, BAR_THICKNESS)

\* The slip: d drawing on BG_BASE itself.
FrameTargetShared == "bg"

\* Line 180-181: d draws on frame, the copy.
FrameTarget == "frame"

make_frame_rgb(t, track, edges, bg, c) ==
    LET sig    == get_audio_window(t, track.duration, SourceSamples(track.kind),
                                   WINDOW_SEC, SR)
        spec   == fft_magnitude(sig, track.kind)
        levels == spectrum_to_bands(spec.freqs, spec.mags, edges).levels
        ops    == DrawOps(levels, c)
        heap   == [bg |-> bg, frame |-> bg]              \* frame = BG_BASE.copy()
        drawn  == [heap EXCEPT ![FrameTarget] = Paint(@, ops, 1)]
    IN  [t |-> t, levels |-> levels, ops |-> ops,
         pixels |-> drawn[FrameTarget],                  \* np.array(frame...)
         bg |-> drawn.bg]

\* The timestamps asked for: every third frame of a track of MaxFrames of
\* them, so that the ranges are cut at the start, at the end, or not at all.
FrameStride == 3 * FrameTicks
Times       == {k * FrameStride : k \in 0..(MaxFrames - 1)}
Background(spokes) ==
    [c \in Cells(spokes) |-> (31 * c[1] + 7 * c[2] + 3 * c[3]) % 256]
OctaveEdges(spokes) == [k \in 1..(spokes + 1) |-> 2^(k - 1)]

InitFrames ==
    /\ phase = "render"
    /\ cfg \in [ring : BOOLEAN, glow : BOOLEAN, steps : 0..MaxGlow]
    /\ audio \in [duration : {MaxFrames * FrameStride}, kind : TrackKinds]
    /\ \E spokes \in 1..MaxSpokes :
          /\ BAND_EDGES = OctaveEdges(spokes)
          /\ BG_BASE = Background(spokes)
    /\ static0 = [bg |-> BG_BASE, edges |-> BAND_EDGES]
    /\ frame_out = None
    /\ first = [t \in Times |-> None]
    /\ FitIdle /\ EdgeIdle /\ BandIdle /\ WinIdle /\ SpokeIdle

MakeFrame(t) ==
    /\ phase = "render"
    /\ LET r == make_frame_rgb(t, audio, BAND_EDGES, BG_BASE, cfg)
           got == [levels |-> r.levels, pixels |-> r.pixels]
       IN  /\ frame_out' = [t |-> t, levels |-> r.levels, ops |-> r.ops,
                            pixels |-> r.pixels, again |-> first[t] # None]
           /\ BG_BASE' = r.bg
           /\ first' = IF first[t] = None THEN [first EXCEPT ![t] = got] ELSE first
    /\ UNCHANGED <<phase, fitVars, edgeVars, bandVars, winVars, spokeVars,
                   cfg, audio, BAND_EDGES, static0>>

NextFrames == \E t \in Times : MakeFrame(t)

SpecFrames == InitFrames /\ [][NextFrames]_vars

(***************************************************************************)
(* Claims about make_frame_rgb.                                            *)
(***************************************************************************)
Rendered  == phase = "render" /\ frame_out # None
NumSpokes == Len(frame_out.levels)
NumGlow   == IF cfg.glow /\ cfg.steps > 0 THEN cfg.steps ELSE 0
NumCircle == Cardinality({k \in DOMAIN frame_out.ops : frame_out.ops[k].op = "ellipse"})
\* The p-th draw of the j-th pass of bars, the base circle apart.
PassOp(j, p) == frame_out.ops[NumCircle + (j - 1) * NumSpokes + p]

\* C7: whatever frames have been computed, in whatever order, BG_BASE and
\* BAND_EDGES are as they were computed at start-up, and the frame for a
\* timestamp has the levels and the pixels it had the first time.
C7_FramePure ==
    phase = "render" =>
        /\ BG_BASE = static0.bg
        /\ BAND_EDGES = static0.edges
        /\ frame_out # None =>
              /\ first[frame_out.t] # None
              /\ first[frame_out.t].levels = frame_out.levels
              /\ first[frame_out.t].pixels = frame_out.pixels

\* The frame of a timestamp computed again after a different frame of
\* another timestamp, both drawn over the background.
C7_Witness ==
    /\ Rendered
    /\ frame_out.again
    /\ frame_out.pixels # BG_BASE
    /\ \E u \in Times \ {frame_out.t} :
          first[u] # None /\ first[u].pixels # frame_out.pixels

\* C8: with glow on and N >= 1 passes, from pass 1 to pass N the alpha does
\* not increase and is never below 0, the width drawn with (clamped to at
\* least 1) strictly increases, and every glow pass is white.
C8_GlowFalloff ==
    (Rendered /\ cfg.glow /\ cfg.steps >= 1) =>
        \A j \in 1..cfg.steps : \A p \in 1..NumSpokes :
            /\ PassOp(j, p).op = "line"
            /\ PassOp(j, p).rgb = <<255, 255, 255>>
            /\ PassOp(j, p).alpha >= 0
            /\ PassOp(j, p).width >= 1
            /\ j < cfg.steps =>
                  /\ PassOp(j + 1, p).alpha <= PassOp(j, p).alpha
                  /\ PassOp(j + 1, p).width > PassOp(j, p).width

\* Two glow passes: alpha 80 then 40, width 4 then 6.
C8_Witness ==
    /\ Rendered /\ cfg.glow /\ cfg.steps = 2
    /\ PassOp(1, 1).alpha = GLOW_ALPHA /\ PassOp(2, 1).alpha = 40
    /\ PassOp(1, 1).width = 4 /\ PassOp(2, 1).width = 6

\* C10: the draws of one frame are, in order: the base circle at most once
\* and first; the glow passes 1..N (only with glow on and N > 0); exactly
\* one sharp pass at BAR_THICKNESS and alpha 255, last.  Every pass draws
\* all B bars, and the sharp pass is there for every configuration.
C10_DrawOrder ==
    Rendered =>
        /\ NumCircle <= 1
        /\ NumCircle = 1 <=> cfg.ring
        /\ NumCircle = 1 => frame_out.ops[1].op = "ellipse"
        /\ Len(frame_out.ops) = NumCircle + (NumGlow + 1) * NumSpokes
        /\ \A j \in 1..(NumGlow + 1) : \A p \in 1..NumSpokes :
              /\ PassOp(j, p).op = "line"
              /\ PassOp(j, p).spoke = p - 1
              /\ PassOp(j, p).width = PassOp(j, 1).width
              /\ PassOp(j, p).alpha = PassOp(j, 1).alpha
        /\ \A j \in 1..NumGlow :
              /\ PassOp(j, 1).width = BAR_THICKNESS + j * GLOW_EXPAND
              /\ PassOp(j, 1).width # BAR_THICKNESS
        /\ PassOp(NumGlow + 1, 1).width = BAR_THICKNESS
        /\ PassOp(NumGlow + 1, 1).alpha = 255

\* A frame with the base circle, two glow passes and the sharp pass, of two
\* bars each.
C10_Witness ==
    /\ Rendered /\ cfg.ring /\ cfg.glow /\ cfg.steps = 2 /\ NumSpokes = 2
    /\ Len(frame_out.ops) = 7
    /\ frame_out.ops[7].alpha = 255 /\ frame_out.ops[7].spoke = 1

\* The configurations of C10 without glow passes: glow off with steps set,
\* and glow on with no steps.
C10_GlowOffReached == Rendered /\ ~cfg.glow /\ cfg.steps > 0 /\ ~cfg.ring
                      /\ Len(frame_out.ops) = NumSpokes
C10_NoStepsReached == Rendered /\ cfg.glow /\ cfg.steps = 0
                      /\ Len(frame_out.ops) = NumCircle + NumSpokes

=============================================================================
